---------------------------- MODULE Spec2Model ----------------------------
(***************************************************************************)
(* Omniplex Newsroom: the SHA256Verifier ledgers, the two freeze-capable   *)
(* brains (We333ParliamentBrain, We333WestminsterWatch), the journalism    *)
(* pipeline run, the automation loop with its action log, the Runway video *)
(* generation call and the We333Agent with its ethics gate, as state       *)
(* machines.                                                               *)
(*                                                                         *)
(* Python dictionaries are functions with a finite domain; an object is a  *)
(* record of its fields; a method is an operator from the object (and its  *)
(* inputs) to [self |-> the object afterwards, val |-> the return value].  *)
(* datetime.now() is the variable now, an abstract clock tick that every   *)
(* operation reads once and may find advanced.  Each file of the           *)
(* repository is a script of its own: a behaviour is the life of one of    *)
(* them, chosen by the variable script.                                    *)
(***************************************************************************)
EXTENDS Integers, Sequences, FiniteSets, TLC

VARIABLES
    script,          \* which of the repository's scripts this process runs
    now,             \* the wall clock (datetime.now()), in ticks
    stdout,          \* the freeze reasons printed so far
    ret,             \* the last call: its name, its arguments, its return value
                     \* (a dictionary or None; a boolean b as [returned |-> b])
    sha_parliament,  \* SHA256Verifier.hashes of octopus_parliament_only.py
    sha_journalism,  \* SHA256Verifier.hashes of journalism_pipeline.py
    sha_watsonx,     \* SHA256Verifier.hashes of watsonx_orchestrate.py
    brain,           \* a We333ParliamentBrain
    watch,           \* a We333WestminsterWatch
    run,             \* one run_journalism_pipeline() call: its locals and its trace
    auto,            \* automation.py: CYCLE, the content of LOG_FILE, main's position
    video,           \* one RunwayVideoGenerator.generate_video_from_text() call
    agent,           \* a We333Agent of watsonx_orchestrate.py
    loop,            \* We333ParliamentBrain.run(): its position and its iteration count
    verdicts         \* what the direct OmniplexEthics.check calls have returned, by
                     \* their arguments: the verdict of the latest such call

vars == <<script, now, stdout, ret, sha_parliament, sha_journalism, sha_watsonx,
          brain, watch, run, auto, video, agent, loop, verdicts>>

----------------------------------------------------------------------------
(* Bounds of the model *)

\* the clock runs from tick 0 to tick MaxNow
MaxNow == 2
\* verify is called with keys 1..MaxKey and data 1..MaxData
MaxKey == 3
MaxData == 2
\* the ledger specification makes at most MaxCalls verify calls
MaxCalls == 4
\* ticks of the clock in one clock hour
TicksPerHour == 2
\* direct process_arm calls stop once the arm's errors counter is MaxErrors
MaxErrors == 3
\* main() of automation.py runs at most MaxCycle cycles
MaxCycle == 20
\* at most MaxFaults steps of the automation fail (data fetch, voice, git push)
MaxFaults == 1
\* the agent is called until its memory holds MaxMemory entries
MaxMemory == 3

----------------------------------------------------------------------------
(* Python dictionaries *)

EmptyDict == [k \in {} |-> k]

\* d[k] = v
Put(d, k, v) == [x \in (DOMAIN d) \cup {k} |-> IF x = k THEN v ELSE d[x]]

\* None, told apart from every dictionary
None == [None |-> TRUE]

\* d.get(k, default)
Get(d, k, default) == IF k \in DOMAIN d THEN d[k] ELSE default

----------------------------------------------------------------------------
(* SHA256Verifier, three copies *)

\* hashlib.sha256(data.encode()).hexdigest(): a digest, one per content
compute_hash(data) == <<"sha256", data>>

\* watsonx_orchestrate.py names the same function compute
compute(data) == <<"sha256", data>>

\* a verify that stores the current hash before it compares
parliament_verify_overwriting(hashes, key, data) ==
    LET current_hash == compute_hash(data) IN
    [hashes |-> Put(hashes, key, current_hash),
     val |-> ~(key \in DOMAIN hashes /\ hashes[key] # current_hash)]

\* octopus_parliament_only.py: a mismatch returns before the store; every
\* other call stores the current hash
parliament_verify(hashes, key, data) ==
    LET current_hash == compute_hash(data) IN
    IF key \in DOMAIN hashes /\ hashes[key] # current_hash
    THEN [hashes |-> hashes, val |-> FALSE]
    ELSE [hashes |-> Put(hashes, key, current_hash), val |-> TRUE]

\* a verify that replaces the recorded hash when it reports a mismatch
journalism_verify_updating(hashes, key, data) ==
    LET current == compute_hash(data) IN
    [hashes |-> Put(hashes, key, current),
     val |-> key \notin DOMAIN hashes \/ hashes[key] = current]

\* a verify whose comparison is inverted
journalism_verify_inverted(hashes, key, data) ==
    LET current == compute_hash(data) IN
    IF key \in DOMAIN hashes
    THEN [hashes |-> hashes, val |-> hashes[key] # current]
    ELSE [hashes |-> Put(hashes, key, current), val |-> TRUE]

\* journalism_pipeline.py: a recorded key is only compared
journalism_verify(hashes, key, data) ==
    LET current == compute_hash(data) IN
    IF key \in DOMAIN hashes
    THEN [hashes |-> hashes, val |-> hashes[key] = current]
    ELSE [hashes |-> Put(hashes, key, current), val |-> TRUE]

\* a verify that stores on every call
watsonx_verify_overwriting(hashes, key, data) ==
    LET current == compute(data) IN
    [hashes |-> Put(hashes, key, current),
     val |-> key \in DOMAIN hashes => hashes[key] = current]

\* watsonx_orchestrate.py: the same text as journalism_pipeline.py
watsonx_verify(hashes, key, data) ==
    LET current == compute(data) IN
    IF key \in DOMAIN hashes
    THEN [hashes |-> hashes, val |-> hashes[key] = current]
    ELSE [hashes |-> Put(hashes, key, current), val |-> TRUE]

----------------------------------------------------------------------------
(* The clock *)

\* datetime.now().hour
hour(t) == (t \div TicksPerHour) % 24

\* timedelta(minutes=30), in ticks
drift_interval == TicksPerHour \div 2

\* the clock readings of n successive datetime.now() calls, the first not
\* before tick from: the clock does not run backwards
RECURSIVE ClockReadings(_, _)
ClockReadings(n, from) ==
    IF n = 0 THEN {<<>>}
    ELSE UNION {{<<t>> \o s : s \in ClockReadings(n - 1, t)} : t \in from..MaxNow}

----------------------------------------------------------------------------
(* octopus_parliament_only.py: OmniplexConstitution *)

human_judgment_preserved == TRUE

zero_manipulation_check(data) == TRUE

\* "decision" in action, for an action written as the sequence of its words
mentions_decision(action) == \E i \in DOMAIN action : action[i] = "decision"

constitution_check(action, data) ==
    IF mentions_decision(action) /\ ~human_judgment_preserved THEN FALSE
    ELSE IF ~zero_manipulation_check(data) THEN FALSE
    ELSE TRUE

----------------------------------------------------------------------------
(* octopus_parliament_only.py: We333ParliamentBrain *)

\* the keys of self.arms, in insertion order
parliament_arms ==
    <<"bills_monitor", "votes_tracker", "debates_analyzer", "committees_watcher",
      "questions_tracker", "lords_monitor", "amendments_tracker", "future_calendar">>

ParliamentArmNames == {parliament_arms[i] : i \in DOMAIN parliament_arms}

\* We333ParliamentBrain(), constructed at tick t
parliament_brain_init(t) ==
    [frozen |-> FALSE,
     last_drift |-> t,
     sha |-> EmptyDict,
     arms |-> [a \in ParliamentArmNames |-> [status |-> "ready", errors |-> 0]]]

mock_endpoints ==
    [bills_monitor |-> "/bills/current",
     votes_tracker |-> "/divisions/recent",
     debates_analyzer |-> "/debates/today",
     committees_watcher |-> "/committees/meetings",
     questions_tracker |-> "/questions/written",
     lords_monitor |-> "/lords/business",
     amendments_tracker |-> "/bills/amendments",
     future_calendar |-> "/calendar/upcoming"]

\* the mock record of an arm; its timestamp is the clock reading t
fetch_parliament_data(arm_name, t) ==
    [type |-> arm_name,
     source |-> <<"api.parliament.uk", Get(mock_endpoints, arm_name, "/unknown")>>,
     timestamp |-> t,
     data |-> <<"Mock Parliament data from", arm_name>>]

\* json.dumps(data, sort_keys=True): the items of the record in key order
json_dumps_sorted(data) ==
    <<<<"data", data.data>>, <<"source", data.source>>,
      <<"timestamp", data.timestamp>>, <<"type", data.type>>>>

check_expected_pattern(data) == TRUE

check_parliament_focus == TRUE

\* the threshold of process_arm: errors >= 3
freeze_threshold == 3

\* a freeze that also clears the errors counters
freeze_resetting(self, reason) ==
    [self |-> [self EXCEPT !.frozen = TRUE,
                           !.arms = [a \in DOMAIN self.arms |->
                                        [status |-> "frozen", errors |-> 0]]],
     val |-> None,
     out |-> {reason}]

\* a freeze that registers an arm of its own
freeze_adding_arm(self, reason) ==
    [self |-> [self EXCEPT !.frozen = TRUE,
                           !.arms = [a \in DOMAIN self.arms \cup {"freeze_monitor"} |->
                                        [status |-> "frozen",
                                         errors |-> IF a \in DOMAIN self.arms
                                                    THEN self.arms[a].errors ELSE 0]]],
     val |-> None,
     out |-> {reason}]

\* a freeze that raises the flag and leaves the arms' statuses alone
freeze_flag_only(self, reason) ==
    [self |-> [self EXCEPT !.frozen = TRUE], val |-> None, out |-> {reason}]

\* freeze(reason): the flag, every arm's status, and the reason on stdout
freeze(self, reason) ==
    [self |-> [self EXCEPT !.frozen = TRUE,
                           !.arms = [a \in DOMAIN self.arms |->
                                        [self.arms[a] EXCEPT !.status = "frozen"]]],
     val |-> None,
     out |-> {reason}]

\* a drift check that resumes a frozen brain when its predicates hold
drift_check_resuming(self, t) ==
    IF t - self.last_drift > drift_interval
    THEN [self |-> [self EXCEPT !.last_drift = t, !.frozen = FALSE],
          val |-> TRUE, out |-> {}]
    ELSE [self |-> self, val |-> TRUE, out |-> {}]

\* drift_check(), the clock reading t
drift_check(self, t) ==
    IF t - self.last_drift > drift_interval
    THEN LET checks == [Parliament_only |-> check_parliament_focus,
                        Eight_arms |-> Cardinality(DOMAIN self.arms) = 8,
                        Ethics_active |-> TRUE,
                        SHA_active |-> TRUE,
                        We333_mode |-> TRUE]
         IN IF ~(\A c \in DOMAIN checks : checks[c])
            THEN [freeze(self, <<"DRIFT DETECTED">>) EXCEPT !.val = FALSE]
            ELSE [self |-> [self EXCEPT !.last_drift = t], val |-> TRUE, out |-> {}]
    ELSE [self |-> self, val |-> TRUE, out |-> {}]

\* a triple_verify without the SHA check
triple_verify_unhashed(self, data, t) ==
    [self |-> self,
     val |-> /\ "source" \in DOMAIN data /\ data.source[1] = "api.parliament.uk"
             /\ Cardinality(DOMAIN data) > 0
             /\ check_expected_pattern(data),
     out |-> {}]

\* triple_verify(data): the SHA check runs whatever the other three say
triple_verify(self, data, t) ==
    LET source_ok == "source" \in DOMAIN data /\ data.source[1] = "api.parliament.uk"
        structure_ok == Cardinality(DOMAIN data) > 0
        pattern_ok == check_expected_pattern(data)
        sha == parliament_verify(self.sha, <<Get(data, "type", "unknown"), hour(t)>>,
                                 json_dumps_sorted(data))
    IN [self |-> [self EXCEPT !.sha = sha.hashes],
        val |-> source_ok /\ structure_ok /\ pattern_ok /\ sha.val,
        out |-> {}]

\* a process_arm that freezes one failure late: errors > 3
process_arm_late(self, arm_name, t) ==
    IF ~constitution_check(<<"fetch", arm_name>>, arm_name)
    THEN [self |-> self, val |-> EmptyDict, out |-> {}]
    ELSE LET data == fetch_parliament_data(arm_name, t)
             verified == triple_verify(self, data, t)
             failed == [verified.self EXCEPT !.arms[arm_name].errors = @ + 1]
         IN IF ~verified.val
            THEN IF failed.arms[arm_name].errors > freeze_threshold
                 THEN [freeze(failed, <<"Arm", arm_name, "failed 3 times">>)
                          EXCEPT !.val = EmptyDict]
                 ELSE [self |-> failed, val |-> EmptyDict, out |-> {}]
            ELSE [self |-> verified.self, val |-> data, out |-> {}]

\* process_arm(arm_name), the clock reading t
process_arm(self, arm_name, t) ==
    IF ~constitution_check(<<"fetch", arm_name>>, arm_name)
    THEN [self |-> self, val |-> EmptyDict, out |-> {}]
    ELSE LET data == fetch_parliament_data(arm_name, t)
             verified == triple_verify(self, data, t)
             failed == [verified.self EXCEPT !.arms[arm_name].errors = @ + 1]
         IN IF ~verified.val
            THEN IF failed.arms[arm_name].errors >= freeze_threshold
                 THEN [freeze(failed, <<"Arm", arm_name, "failed 3 times">>)
                          EXCEPT !.val = EmptyDict]
                 ELSE [self |-> failed, val |-> EmptyDict, out |-> {}]
            ELSE [self |-> verified.self, val |-> data, out |-> {}]

\* the loop of gather_intelligence from the i-th arm on; ts[i] is the clock
\* reading of the i-th arm's turn
RECURSIVE gather_loop(_, _, _, _, _)
gather_loop(self, intelligence, out, i, ts) ==
    IF i > Len(parliament_arms) THEN [self |-> self, val |-> intelligence, out |-> out]
    ELSE LET arm_name == parliament_arms[i] IN
         IF self.arms[arm_name].status = "ready"
         THEN LET result == process_arm(self, arm_name, ts[i]) IN
              gather_loop(result.self,
                          IF result.val # EmptyDict
                          THEN Put(intelligence, arm_name, result.val)
                          ELSE intelligence,
                          out \cup result.out, i + 1, ts)
         ELSE gather_loop(self, intelligence, out, i + 1, ts)

\* a gather_intelligence without the frozen test
gather_intelligence_unguarded(self, ts) == gather_loop(self, EmptyDict, {}, 1, ts)

\* gather_intelligence()
gather_intelligence(self, ts) ==
    IF self.frozen
    THEN [self |-> self, val |-> [status |-> "frozen"], out |-> {}]
    ELSE gather_loop(self, EmptyDict, {}, 1, ts)

\* the bound of run()'s loop
max_iterations == 100

\* a loop test without the iteration bound
run_loop_test_unbounded(self, iteration) == ~self.frozen

\* run(): the test of its while loop
run_loop_test(self, iteration) == ~self.frozen /\ iteration < max_iterations

\* run(): one turn of the loop body, the drift check read at tick t and the
\* arms at ticks ts; break tells whether the body left the loop
run_iteration(self, t, ts) ==
    LET d == drift_check(self, t) IN
    IF ~d.val
    THEN [self |-> d.self, out |-> d.out, break |-> TRUE, why |-> "drift", val |-> None]
    ELSE LET g == gather_intelligence(d.self, ts)
             status_frozen == "status" \in DOMAIN g.val /\ g.val.status = "frozen"
         IN [self |-> g.self, out |-> d.out \cup g.out, break |-> status_frozen,
             why |-> IF status_frozen THEN "status" ELSE "", val |-> g.val]

----------------------------------------------------------------------------
(* octopus_we333.py: We333WestminsterWatch *)

\* the keys of self.arms, in insertion order
our_arms ==
    <<"parliament_monitor", "council_tracker", "x_sentiment", "bias_detector",
      "economics_tracker", "crime_monitor", "weather_crisis", "future_simulator">>

OurArmNames == {our_arms[i] : i \in DOMAIN our_arms}

\* initialize_our_arms()
initialize_our_arms ==
    [a \in OurArmNames |->
        [status |-> "ready", last_data |-> None, errors |-> 0, we333_verified |-> FALSE]]

\* We333WestminsterWatch(), constructed at tick t
westminster_watch_init(t) ==
    [arms |-> initialize_our_arms,
     frozen |-> FALSE,
     last_drift_check |-> t,
     we333_mode |-> TRUE]

check_uk_focus == TRUE

check_simplicity == TRUE

check_truth_priority == TRUE

check_zero_manipulation == TRUE

verify_primary_source(data) == TRUE

verify_secondary_source(data) == TRUE

verify_pattern_match(data) == TRUE

get_human_context(arm_name) == [human_insight |-> "Local knowledge added"]

collect_from_arm(arm_name, t) ==
    [source |-> arm_name, timestamp |-> t, data |-> <<"Mock data from", arm_name>>]

we333_merge(ai_data, human_context) ==
    [ai_perspective |-> ai_data,
     human_wisdom |-> human_context,
     our_synthesis |-> "Combined understanding",
     we333_verified |-> TRUE]

\* the threshold of collaborative_gather: errors >= 3
we_freeze_threshold == 3

\* a we_freeze that raises the flag and leaves the arms' statuses alone
we_freeze_flag_only(self, reason) ==
    [self |-> [self EXCEPT !.frozen = TRUE], val |-> None, out |-> {reason}]

\* we_freeze(reason); freeze_log is a local that nothing reads
we_freeze(self, reason) ==
    [self |-> [self EXCEPT !.frozen = TRUE,
                           !.arms = [a \in DOMAIN self.arms |->
                                        [self.arms[a] EXCEPT !.status = "frozen"]]],
     val |-> None,
     out |-> {reason}]

\* we333_drift_check(), the clock reading t
we333_drift_check(self, t) ==
    IF t - self.last_drift_check > drift_interval
    THEN LET checks == [WE_UK_focused |-> check_uk_focus,
                        OUR_eight_arms |-> Cardinality(DOMAIN self.arms) = 8,
                        WE_keep_simple |-> check_simplicity,
                        OUR_truth_first |-> check_truth_priority,
                        WE_zero_manipulation |-> check_zero_manipulation]
         IN IF ~(\A c \in DOMAIN checks : checks[c])
            THEN [we_freeze(self, <<"WE DETECTED DRIFT TOGETHER">>) EXCEPT !.val = FALSE]
            ELSE [self |-> [self EXCEPT !.last_drift_check = t], val |-> TRUE, out |-> {}]
    ELSE [self |-> self, val |-> TRUE, out |-> {}]

\* a triple check that reports a failure without freezing the watch
we333_triple_check_lenient(self, data, human_check) ==
    [self |-> self,
     val |-> verify_primary_source(data) /\ verify_secondary_source(data)
             /\ verify_pattern_match(data) /\ human_check,
     out |-> {}]

\* we333_triple_check(data); human_check is what await_human_verification()
\* returns. The source simulates the answer with True and documents it as the
\* real input of a human in production, so the answer is an input here.
we333_triple_check(self, data, human_check) ==
    LET ai_check1 == verify_primary_source(data)
        ai_check2 == verify_secondary_source(data)
        ai_check3 == verify_pattern_match(data)
        we_verified == ai_check1 /\ ai_check2 /\ ai_check3 /\ human_check
    IN IF ~we_verified
       THEN [we_freeze(self, <<"WE333 VERIFICATION NEEDS CONSENSUS">>) EXCEPT !.val = FALSE]
       ELSE [self |-> self, val |-> TRUE, out |-> {}]

\* the loop of collaborative_gather from the i-th arm on; ts[i] is the clock
\* reading and humans[i] the human's answer of the i-th arm's turn
RECURSIVE collaborative_loop(_, _, _, _, _, _)
collaborative_loop(self, our_intelligence, out, i, ts, humans) ==
    IF i > Len(our_arms) THEN [self |-> self, val |-> our_intelligence, out |-> out]
    ELSE LET arm_name == our_arms[i] IN
         IF self.arms[arm_name].status = "ready"
         THEN LET ai_data == collect_from_arm(arm_name, ts[i])
                  human_context == get_human_context(arm_name)
                  merged_data == we333_merge(ai_data, human_context)
                  checked == we333_triple_check(self, merged_data, humans[i])
                  verified == [checked.self EXCEPT
                                  !.arms[arm_name].last_data = merged_data,
                                  !.arms[arm_name].we333_verified = TRUE]
                  failed == [checked.self EXCEPT !.arms[arm_name].errors = @ + 1]
                  frozen == we_freeze(failed, <<"OUR", arm_name, "needs attention">>)
              IN IF checked.val
                 THEN collaborative_loop(verified,
                                         Put(our_intelligence, arm_name, merged_data),
                                         out \cup checked.out, i + 1, ts, humans)
                 ELSE IF failed.arms[arm_name].errors >= we_freeze_threshold
                      THEN [self |-> frozen.self,
                            val |-> [status |-> "WE are fixing together"],
                            out |-> out \cup checked.out \cup frozen.out]
                      ELSE collaborative_loop(failed, our_intelligence,
                                              out \cup checked.out, i + 1, ts, humans)
         ELSE collaborative_loop(self, our_intelligence, out, i + 1, ts, humans)

\* collaborative_gather()
collaborative_gather(self, ts, humans) ==
    IF self.frozen
    THEN [self |-> self, val |-> [status |-> "WE are reviewing together"], out |-> {}]
    ELSE collaborative_loop(self, EmptyDict, {}, 1, ts, humans)

\* the answers a human would give in one pass, one per arm: no refusal, one,
\* or two (the watch may stop asking before the pass is over)
HumanAnswers ==
    {[i \in DOMAIN our_arms |-> i # first /\ i # second] :
        first \in 0..Len(our_arms), second \in 0..Len(our_arms)}

----------------------------------------------------------------------------
(* journalism_pipeline.py: OmniplexJournalismEthics and JournalismPipeline *)

check_story_ethics(story) == TRUE

\* an approval that asks for verified facts only
approve_publication_facts_only(publication) ==
    Len(Get(publication, "verified_facts", <<>>)) > 0

\* publication.get('verified_facts') and publication.get('sources_cited', 0) > 0
approve_publication(publication) ==
    /\ Len(Get(publication, "verified_facts", <<>>)) > 0
    /\ Get(publication, "sources_cited", 0) > 0

check_parliament ==
    <<[headline |-> "New Climate Bill Debate", source |-> "parliament",
       importance |-> 8]>>

check_bbc ==
    <<[headline |-> "Breaking: Economic Update", source |-> "bbc",
       importance |-> 7]>>

check_x_twitter ==
    <<[headline |-> "Trending: NHS Discussion", source |-> "twitter",
       importance |-> 6]>>

\* stories.sort(key=importance, reverse=True): stable, so a story goes behind
\* every story that is at least as important
RECURSIVE sort_insert(_, _)
sort_insert(sorted, story) ==
    IF sorted = <<>> THEN <<story>>
    ELSE IF Head(sorted).importance >= story.importance
         THEN <<Head(sorted)>> \o sort_insert(Tail(sorted), story)
         ELSE <<story>> \o sorted

RECURSIVE sort_by_importance(_)
sort_by_importance(stories) ==
    IF stories = <<>> THEN <<>>
    ELSE sort_insert(sort_by_importance(SubSeq(stories, 1, Len(stories) - 1)),
                     stories[Len(stories)])

\* ARM 1
hunt_stories(sources) ==
    LET stories == check_parliament \o check_bbc \o check_x_twitter
        sorted == sort_by_importance(stories)
    IN SubSeq(sorted, 1, IF Len(sorted) < 3 THEN Len(sorted) ELSE 3)

\* 'parliament' in text, for the words the pipeline uses
contains_parliament(text) == text = "parliament"

classify_story(story) ==
    IF contains_parliament(Get(story, "source", "")) THEN "political" ELSE "general"

identify_stakeholders(story) == <<"Government", "Opposition", "Public">>

assess_impact(story) == IF Get(story, "importance", 0) > 7 THEN "high" ELSE "medium"

extract_facts(analysis) == <<[claim |-> "Sample fact", source |-> "test"]>>

\* 0.8, in tenths
check_source_credibility(source) == 8

\* 0.0, in tenths
calculate_bias(source) == 0

generate_summary(analysis) == <<"Summary of", Get(analysis, "headline", "story")>>

\* json.dumps(analysis): the text of the dictionary
json_dumps(analysis) == <<"json", analysis>>

\* ARM 2
analyze_story(story, t) ==
    LET analysis == [headline |-> Get(story, "headline", None),
                     source |-> Get(story, "source", None),
                     timestamp |-> t,
                     type |-> classify_story(story),
                     stakeholders |-> identify_stakeholders(story),
                     impact |-> assess_impact(story),
                     requires_verification |-> TRUE]
    IN IF ~check_story_ethics(analysis) THEN EmptyDict ELSE analysis

check_primary_source(fact) == TRUE

check_secondary_source(fact) == TRUE

check_historical_pattern(fact) == TRUE

\* the loop of ARM 3 from the i-th fact on: the facts all three checks accept
RECURSIVE verified_from(_, _)
verified_from(facts_to_check, i) ==
    IF i > Len(facts_to_check) THEN <<>>
    ELSE LET fact == facts_to_check[i]
             check1 == check_primary_source(fact)
             check2 == check_secondary_source(fact)
             check3 == check_historical_pattern(fact)
         IN (IF check1 /\ check2 /\ check3 THEN <<fact>> ELSE <<>>)
            \o verified_from(facts_to_check, i + 1)

\* ARM 3; verification_rate is the quotient, kept as (numerator, denominator)
fact_check(analysis) ==
    LET facts_to_check == extract_facts(analysis)
        verified_facts == verified_from(facts_to_check, 1)
    IN Put(Put(analysis, "verified_facts", verified_facts),
           "verification_rate", <<Len(verified_facts), Len(facts_to_check)>>)

\* ARM 4 from the i-th source on: each source gets its credibility and the
\* verdict of SHA256Verifier.verify on (id, content)
RECURSIVE verify_loop(_, _, _)
verify_loop(sources, hashes, i) ==
    IF i > Len(sources) THEN [sources |-> sources, hashes |-> hashes]
    ELSE LET source == sources[i]
             sha == journalism_verify(hashes, source.id, source.content)
             checked == Put(Put(source, "credibility", check_source_credibility(source)),
                            "sha_verified", sha.val)
         IN verify_loop([sources EXCEPT ![i] = checked], sha.hashes, i + 1)

verify_sources(analysis, hashes) ==
    IF "sources" \in DOMAIN analysis
    THEN LET done == verify_loop(analysis.sources, hashes, 1)
         IN [val |-> [analysis EXCEPT !.sources = done.sources], hashes |-> done.hashes]
    ELSE [val |-> analysis, hashes |-> hashes]

call_parliament_api(analysis) == [bills |-> <<>>, votes |-> <<>>]

call_gov_api(analysis) == [statements |-> <<>>]

call_news_apis(analysis) == [articles |-> <<>>]

\* ARM 5
aggregate_apis(analysis) ==
    LET base == [gov_uk |-> call_gov_api(analysis), news |-> call_news_apis(analysis)]
        api_data == IF contains_parliament(Get(analysis, "type", ""))
                    THEN Put(base, "parliament", call_parliament_api(analysis))
                    ELSE base
    IN Put(analysis, "api_data", api_data)

\* ARM 6
build_context(analysis) ==
    Put(analysis, "context",
        [historical |-> "Historical context here",
         stakeholder_positions |-> EmptyDict,
         related_events |-> <<>>,
         future_implications |-> "Future implications"])

\* ARM 7: a bias of 0.0 is neither below -0.3 nor above 0.3
detect_bias(analysis) ==
    LET sources == Get(analysis, "sources", <<>>)
        left(source) == calculate_bias(source) < -3
        right(source) == calculate_bias(source) > 3
        center(source) == ~left(source) /\ ~right(source)
    IN Put(analysis, "bias_analysis",
           [left_sources |-> SelectSeq(sources, left),
            center_sources |-> SelectSeq(sources, center),
            right_sources |-> SelectSeq(sources, right),
            bias_score |-> 0])

\* ARM 8
prepare_publication(analysis, t) ==
    LET publication == [headline |-> analysis.headline,
                        summary |-> generate_summary(analysis),
                        verified_facts |-> Get(analysis, "verified_facts", <<>>),
                        sources_cited |-> Len(Get(analysis, "sources", <<>>)),
                        bias_disclosure |-> Get(analysis, "bias_analysis", EmptyDict),
                        publication_time |-> t,
                        website_target |-> "omniplex.earth",
                        sha_signature |-> compute_hash(json_dumps(analysis))]
    IN IF approve_publication(publication)
       THEN Put(publication, "status", "READY_TO_PUBLISH")
       ELSE Put(publication, "status", "NEEDS_HUMAN_REVIEW")

\* the arms with two stages registered in the other order
journalism_arms_reordered ==
    <<"1_story_hunter", "2_story_analyzer", "4_source_verifier", "3_fact_checker",
      "5_api_aggregator", "6_context_builder", "7_bias_detector", "8_publisher">>

\* the keys of self.arms, in insertion order
journalism_arms ==
    <<"1_story_hunter", "2_story_analyzer", "3_fact_checker", "4_source_verifier",
      "5_api_aggregator", "6_context_builder", "7_bias_detector", "8_publisher">>

\* self.arms[arm_name](result): what the stage returns, and the hashes of the
\* pipeline's verifier afterwards
arm_function(arm_name, result, hashes, t) ==
    CASE arm_name = "1_story_hunter" ->
            [val |-> hunt_stories(result), hashes |-> hashes]
      [] arm_name = "2_story_analyzer" ->
            [val |-> analyze_story(result, t), hashes |-> hashes]
      [] arm_name = "3_fact_checker" ->
            [val |-> fact_check(result), hashes |-> hashes]
      [] arm_name = "4_source_verifier" -> verify_sources(result, hashes)
      [] arm_name = "5_api_aggregator" ->
            [val |-> aggregate_apis(result), hashes |-> hashes]
      [] arm_name = "6_context_builder" ->
            [val |-> build_context(result), hashes |-> hashes]
      [] arm_name = "7_bias_detector" ->
            [val |-> detect_bias(result), hashes |-> hashes]
      [] arm_name = "8_publisher" ->
            [val |-> prepare_publication(result, t), hashes |-> hashes]

----------------------------------------------------------------------------
(* automation.py *)

\* sha256(data)
sha256(data) == <<"sha256", data>>

\* the content of data.json that full_data_generator.py leaves behind
data_json == [stats |-> [total_bills |-> 1, total_votes |-> 1, total_news |-> 1]]

\* logs = logs[-100:]
log_keep == 100

\* log_action(action, details, sha) with CYCLE = cycle and the clock at t, on
\* the LOG_FILE content file (no file, or an unreadable one, reads as []);
\* the LOG_FILE content afterwards
log_action(file, cycle, t, action, details, sha) ==
    LET entry == [cycle |-> cycle,
                  timestamp |-> t,
                  action |-> action,
                  details |-> details,
                  sha |-> IF sha # None THEN [first16 |-> sha, then |-> "..."] ELSE None]
        logs == Append(file, entry)
    IN IF Len(logs) > log_keep
       THEN SubSeq(logs, Len(logs) - log_keep + 1, Len(logs))
       ELSE logs

\* the automation between two log_action calls: the file and the clock, which
\* every log_action call finds advanced
logged(st, cycle, action, details, sha) ==
    [file |-> log_action(st.file, cycle, st.t, action, details, sha), t |-> st.t + 1]

\* run_data_generator(); data_ok: the subprocess ran and data.json was read
run_data_generator(st, cycle, data_ok) ==
    LET st1 == logged(st, cycle, "DATA_FETCH", <<"Starting UK data collection...">>, None)
    IN IF data_ok
       THEN LET data_sha == sha256(data_json)
                stats == Get(data_json, "stats", EmptyDict)
            IN [st |-> logged(st1, cycle, "DATA_COMPLETE",
                              <<"Bills:", Get(stats, "total_bills", 0),
                                "Votes:", Get(stats, "total_votes", 0),
                                "News:", Get(stats, "total_news", 0)>>, data_sha),
                val |-> <<TRUE, data_sha>>]
       ELSE [st |-> logged(st1, cycle, "DATA_ERROR", <<"str(e)">>, None),
             val |-> <<FALSE, None>>]

\* generate_voice_briefing(); voice_ok: ElevenLabs delivered the audio
generate_voice_briefing(st, cycle, voice_ok) ==
    LET st1 == logged(st, cycle, "VOICE_GEN", <<"Generating ElevenLabs briefing...">>, None)
    IN IF voice_ok
       THEN [st |-> logged(st1, cycle, "VOICE_COMPLETE", <<"auto_briefing_", st1.t, ".mp3">>, None),
             val |-> <<TRUE, <<"auto_briefing_", st1.t, ".mp3">>>>]
       ELSE [st |-> logged(st1, cycle, "VOICE_SKIP", <<"ElevenLabs: ", "str(e)[:50]">>, None),
             val |-> <<FALSE, None>>]

\* git_push(data_sha); git: how the push went
git_push(st, cycle, data_sha, git) ==
    LET st1 == logged(st, cycle, "GIT_PUSH", <<"Pushing to GitHub...">>, None)
    IN CASE git = "pushed" ->
              [st |-> logged(st1, cycle, "GIT_COMPLETE", <<"Pushed to omniplex.earth">>, None),
               val |-> TRUE]
         [] git = "not pushed" ->
              [st |-> logged(st1, cycle, "GIT_SKIP", <<"No changes or push failed">>, None),
               val |-> FALSE]
         [] git = "exception" ->
              [st |-> logged(st1, cycle, "GIT_ERROR", <<"str(e)">>, None),
               val |-> FALSE]

\* a run_cycle that attempts the voice briefing only after a good data fetch
run_cycle_voice_needs_data(st, cycle, data_ok, voice_ok, git) ==
    LET CYCLE == cycle + 1
        data == run_data_generator(st, CYCLE, data_ok)
        voice == IF CYCLE % 3 = 1 /\ data.val[1]
                 THEN generate_voice_briefing(data.st, CYCLE, voice_ok)
                 ELSE [st |-> logged(data.st, CYCLE, "VOICE_SKIP",
                                     <<"Cycle ", CYCLE, " - voice every 3rd cycle">>, None),
                       val |-> <<FALSE, None>>]
        pushed == IF data.val[1]
                  THEN git_push(voice.st, CYCLE, data.val[2], git)
                  ELSE [st |-> voice.st, val |-> FALSE]
    IN [CYCLE |-> CYCLE, st |-> pushed.st,
        data_ok |-> data.val[1], voice_ok |-> voice.val[1]]

\* run_cycle() on CYCLE = cycle; CYCLE, LOG_FILE and the clock afterwards
run_cycle(st, cycle, data_ok, voice_ok, git) ==
    LET CYCLE == cycle + 1
        data == run_data_generator(st, CYCLE, data_ok)
        voice == IF CYCLE % 3 = 1
                 THEN generate_voice_briefing(data.st, CYCLE, voice_ok)
                 ELSE [st |-> logged(data.st, CYCLE, "VOICE_SKIP",
                                     <<"Cycle ", CYCLE, " - voice every 3rd cycle">>, None),
                       val |-> <<FALSE, None>>]
        pushed == IF data.val[1]
                  THEN git_push(voice.st, CYCLE, data.val[2], git)
                  ELSE [st |-> voice.st, val |-> FALSE]
    IN [CYCLE |-> CYCLE, st |-> pushed.st,
        data_ok |-> data.val[1], voice_ok |-> voice.val[1]]

\* CYCLE = 0 and no LOG_FILE yet
automation_init == [CYCLE |-> 0, LOG_FILE |-> <<>>, pc |-> "start", faults |-> 0]

----------------------------------------------------------------------------
(* runway_video_generator.py: RunwayVideoGenerator *)

\* what self.client.tasks.retrieve(task_id) can answer: a status, or an exception
TaskStatuses == {"PENDING", "RUNNING", "SUCCEEDED", "FAILED"}

\* before RunwayVideoGenerator() is constructed
video_init == [pc |-> "start", client |-> None, status |-> None, result |-> None]

\* RunwayVideoGenerator(): the client, or None without api key or runwayml
runway_init(configured) ==
    [pc |-> "idle",
     client |-> IF configured THEN [api |-> "RunwayML"] ELSE None,
     status |-> None, result |-> None]

\* generate_video_from_text(prompt, duration) up to its polling loop; created
\* tells whether image_to_video.create answered with a task or raised
generate_video_from_text(self, prompt, duration, created) ==
    IF self.client = None
    THEN [self EXCEPT !.pc = "returned", !.result = [error |-> "Runway not configured"]]
    ELSE IF ~created
    THEN [self EXCEPT !.pc = "returned", !.result = [error |-> "str(e)"]]
    ELSE [self EXCEPT !.pc = "polling"]

\* one turn of the while True loop: retrieve the task, return on SUCCEEDED and
\* on FAILED (and on an exception), else sleep 10 seconds and poll again
poll_task(self, prompt, answer) ==
    CASE answer = "SUCCEEDED" ->
            [self EXCEPT !.pc = "returned", !.status = [status |-> answer],
                         !.result = [status |-> "success", video_url |-> "output[0]",
                                     task_id |-> "task.id", prompt |-> prompt]]
      [] answer = "FAILED" ->
            [self EXCEPT !.pc = "returned", !.status = [status |-> answer],
                         !.result = [status |-> "failed", error |-> "failure",
                                     task_id |-> "task.id"]]
      [] answer = "exception" ->
            [self EXCEPT !.pc = "returned", !.result = [error |-> "str(e)"]]
      [] OTHER -> [self EXCEPT !.status = [status |-> answer]]

----------------------------------------------------------------------------
(* watsonx_orchestrate.py: OmniplexEthics and We333Agent *)

\* A text is the sequence of its pieces; lower() maps each piece, and
\* "kw in text" finds a keyword that is one of the pieces.
lower_piece(piece) ==
    CASE piece = "Force" -> "force"
      [] piece = "Publish" -> "publish"
      [] OTHER -> piece

lower(text) == [i \in DOMAIN text |-> lower_piece(text[i])]

contains(text, kw) == \E i \in DOMAIN text : text[i] = kw

\* text[:n]
truncated(text, n) == SubSeq(text, 1, IF Len(text) < n THEN Len(text) ELSE n)

\* OmniplexEthics()
omniplex_ethics_init ==
    [laws |-> [law_002 |-> "Human judgment preserved",
               law_003 |-> "Zero manipulation",
               law_007 |-> "Triple verification required",
               law_011 |-> "Emergency override available",
               law_012 |-> "Heritage honored"]]

manipulation_keywords == <<"force", "manipulate", "deceive", "hide">>

review_actions == <<"publish", "decide", "conclude", "report">>

_is_manipulative(self, action, data) ==
    \E k \in DOMAIN manipulation_keywords :
        contains(lower(action), manipulation_keywords[k])

_requires_human_review(self, action) ==
    \E k \in DOMAIN review_actions : contains(lower(action), review_actions[k])

\* a check that strikes the law it has enforced and then no longer enforces it
ethics_check_wearing(self, action, data) ==
    IF "law_003" \in DOMAIN self.laws /\ _is_manipulative(self, action, data)
    THEN [self |-> [laws |-> [l \in DOMAIN self.laws \ {"law_003"} |-> self.laws[l]]],
          val |-> FALSE]
    ELSE [self |-> self, val |-> TRUE]

\* OmniplexEthics.check(action, data): the gate afterwards and the verdict
ethics_check(self, action, data) ==
    IF _is_manipulative(self, action, data)
    THEN [self |-> self, val |-> FALSE]
    ELSE [self |-> self, val |-> TRUE]

\* We333Agent(name, role)
we333_agent_init(name, role) ==
    [name |-> name, role |-> role, memory |-> <<>>, ethics |-> omniplex_ethics_init]

\* the agent 'bills_monitor' of OrchestratedPipeline
agent_init == we333_agent_init("BillsMonitor", "Track current legislation")

\* think(context)
think(self, context) ==
    LET thought == <<"[", self.name, "] Analyzing: ", truncated(context, 100), "...">>
    IN [self |-> [self EXCEPT !.memory =
                      Append(@, [type |-> "thought", content |-> thought])],
        val |-> [thought |-> thought]]

\* an act that notes the blocked action in the memory
act_noting_blocked(self, action, data, t) ==
    LET checked == ethics_check(self.ethics, action, data)
        result == [agent |-> self.name, action |-> action, timestamp |-> t]
    IN IF ~checked.val
       THEN [self |-> [self EXCEPT !.memory =
                          Append(@, [type |-> "action", content |-> result])],
             val |-> [status |-> "blocked", reason |-> "Ethics violation"]]
       ELSE [self |-> [self EXCEPT !.memory =
                          Append(@, [type |-> "action", content |-> result])],
             val |-> result]

\* act(action, data), the clock reading t
act(self, action, data, t) ==
    LET checked == ethics_check(self.ethics, action, data)
        self1 == [self EXCEPT !.ethics = checked.self]
        result == [agent |-> self.name, action |-> action, timestamp |-> t]
    IN IF ~checked.val
       THEN [self |-> self1, val |-> [status |-> "blocked", reason |-> "Ethics violation"]]
       ELSE [self |-> [self1 EXCEPT !.memory =
                          Append(@, [type |-> "action", content |-> result])],
             val |-> result]

\* observe(observation)
observe(self, observation) ==
    [self |-> [self EXCEPT !.memory =
                  Append(@, [type |-> "observation",
                             content |-> truncated(observation, 500)])],
     val |-> None]

----------------------------------------------------------------------------
(* The state after construction *)

Scripts ==
    {"octopus_parliament_only", "octopus_we333", "journalism_pipeline", "ledgers",
     "automation", "runway_video_generator", "watsonx_orchestrate",
     "journalism_pipeline.prepare_publication", "octopus_parliament_only.run"}

\* run() entered: iteration = 0
loop_init == [pc |-> "run", iteration |-> 0]

run_init ==
    [pc |-> "start", i |-> 0, result |-> None, hashes |-> EmptyDict, trace |-> <<>>]

Init ==
    /\ script \in Scripts
    /\ now = 0
    /\ stdout = {}
    /\ ret = [op |-> "init", n |-> 0]
    /\ sha_parliament = EmptyDict
    /\ sha_journalism = EmptyDict
    /\ sha_watsonx = EmptyDict
    /\ brain = parliament_brain_init(0)
    /\ watch = westminster_watch_init(0)
    /\ run = run_init
    /\ auto = automation_init
    /\ video = video_init
    /\ agent = agent_init
    /\ loop = loop_init
    /\ verdicts = EmptyDict

----------------------------------------------------------------------------
(* The ledgers: one verify(key, data) call, made on each of the three copies *)

Keys == 1..MaxKey

Data == 1..MaxData

Verify ==
    /\ script = "ledgers"
    /\ ret.n < MaxCalls
    /\ \E key \in Keys, data \in Data :
          LET p == parliament_verify(sha_parliament, key, data)
              j == journalism_verify(sha_journalism, key, data)
              w == watsonx_verify(sha_watsonx, key, data)
          IN /\ sha_parliament' = p.hashes
             /\ sha_journalism' = j.hashes
             /\ sha_watsonx' = w.hashes
             /\ ret' = [op |-> "verify", n |-> ret.n + 1, key |-> key, data |-> data,
                        again |-> ret.op = "verify" /\ ret.key = key /\ ret.data = data,
                        val |-> [parliament |-> p.val, journalism |-> j.val,
                                 watsonx |-> w.val]]
    /\ UNCHANGED <<script, loop, verdicts, auto, video, agent, now, stdout, brain, watch, run>>

----------------------------------------------------------------------------
(* We333ParliamentBrain: its methods, called in any order *)

BrainDriftCheck ==
    /\ script = "octopus_parliament_only"
    /\ \E t \in now..MaxNow :
          LET r == drift_check(brain, t) IN
          /\ now' = t
          /\ brain' = r.self
          /\ stdout' = stdout \cup r.out
          /\ ret' = [op |-> "drift_check", arm |-> "", val |-> [returned |-> r.val]]
    /\ UNCHANGED <<script, loop, verdicts, auto, video, agent, sha_parliament, sha_journalism, sha_watsonx, watch, run>>

BrainGatherIntelligence ==
    /\ script = "octopus_parliament_only"
    /\ \E ts \in ClockReadings(Len(parliament_arms), now) :
          LET r == gather_intelligence(brain, ts) IN
          /\ now' = ts[Len(ts)]
          /\ brain' = r.self
          /\ stdout' = stdout \cup r.out
          /\ ret' = [op |-> "gather_intelligence", arm |-> "", val |-> r.val]
    /\ UNCHANGED <<script, loop, verdicts, auto, video, agent, sha_parliament, sha_journalism, sha_watsonx, watch, run>>

\* the arms a caller outside the class hands to process_arm: one in the middle
\* of the pass order
DirectArms == {parliament_arms[2]}

\* run(): the loop test passes and the body runs once. The drift check reads
\* the clock at rs[1]; the eight fetches of the pass that follows take
\* milliseconds and all read the tick rs[2]
BrainRunIteration ==
    /\ script = "octopus_parliament_only.run"
    /\ loop.pc = "run"
    /\ run_loop_test(brain, loop.iteration)
    /\ \E rs \in ClockReadings(2, now) :
          LET r == run_iteration(brain, rs[1], [i \in DOMAIN parliament_arms |-> rs[2]]) IN
          /\ now' = rs[2]
          /\ brain' = r.self
          /\ stdout' = stdout \cup r.out
          /\ loop' = [pc |-> IF r.break THEN "returned" ELSE "run",
                      iteration |-> loop.iteration + 1]
          /\ ret' = [op |-> "run_iteration", arm |-> r.why, val |-> r.val]
    /\ UNCHANGED <<script, verdicts, auto, video, agent, sha_parliament, sha_journalism, sha_watsonx, watch, run>>

\* run(): the loop test fails and run() returns
BrainRunReturn ==
    /\ script = "octopus_parliament_only.run"
    /\ loop.pc = "run"
    /\ ~run_loop_test(brain, loop.iteration)
    /\ loop' = [loop EXCEPT !.pc = "returned"]
    /\ ret' = [op |-> "run", arm |-> "", val |-> None]
    /\ UNCHANGED <<script, now, stdout, verdicts, auto, video, agent, sha_parliament, sha_journalism, sha_watsonx, brain, watch, run>>

BrainProcessArm ==
    /\ script = "octopus_parliament_only"
    /\ \E arm_name \in DirectArms, t \in now..MaxNow :
          LET r == process_arm(brain, arm_name, t) IN
          /\ brain.arms[arm_name].errors < MaxErrors
          /\ now' = t
          /\ brain' = r.self
          /\ stdout' = stdout \cup r.out
          /\ ret' = [op |-> "process_arm", arm |-> arm_name, val |-> r.val]
    /\ UNCHANGED <<script, loop, verdicts, auto, video, agent, sha_parliament, sha_journalism, sha_watsonx, watch, run>>

\* main(): an exception out of run() freezes the brain
BrainFreeze ==
    /\ script = "octopus_parliament_only"
    /\ \E t \in now..MaxNow :
          LET r == freeze(brain, <<"EXCEPTION - WE fix together">>) IN
          /\ now' = t
          /\ brain' = r.self
          /\ stdout' = stdout \cup r.out
          /\ ret' = [op |-> "freeze", arm |-> "", val |-> r.val]
    /\ UNCHANGED <<script, loop, verdicts, auto, video, agent, sha_parliament, sha_journalism, sha_watsonx, watch, run>>

----------------------------------------------------------------------------
(* We333WestminsterWatch: its methods, called in any order *)

WatchDriftCheck ==
    /\ script = "octopus_we333"
    /\ \E t \in now..MaxNow :
          LET r == we333_drift_check(watch, t) IN
          /\ now' = t
          /\ watch' = r.self
          /\ stdout' = stdout \cup r.out
          /\ ret' = [op |-> "we333_drift_check", val |-> [returned |-> r.val]]
    /\ UNCHANGED <<script, loop, verdicts, auto, video, agent, sha_parliament, sha_journalism, sha_watsonx, brain, run>>

WatchCollaborativeGather ==
    /\ script = "octopus_we333"
    /\ \E ts \in ClockReadings(Len(our_arms), now), humans \in HumanAnswers :
          LET r == collaborative_gather(watch, ts, humans) IN
          /\ now' = ts[Len(ts)]
          /\ watch' = r.self
          /\ stdout' = stdout \cup r.out
          /\ ret' = [op |-> "collaborative_gather", val |-> r.val]
    /\ UNCHANGED <<script, loop, verdicts, auto, video, agent, sha_parliament, sha_journalism, sha_watsonx, brain, run>>

\* main(): an exception out of run() freezes the watch
WatchFreeze ==
    /\ script = "octopus_we333"
    /\ \E t \in now..MaxNow :
          LET r == we_freeze(watch, <<"WE WILL FIX TOGETHER">>) IN
          /\ now' = t
          /\ watch' = r.self
          /\ stdout' = stdout \cup r.out
          /\ ret' = [op |-> "we_freeze", val |-> r.val]
    /\ UNCHANGED <<script, loop, verdicts, auto, video, agent, sha_parliament, sha_journalism, sha_watsonx, brain, run>>

----------------------------------------------------------------------------
(* run_journalism_pipeline(), stage by stage *)

\* pipeline = JournalismPipeline(); stories = pipeline.hunt_stories({});
\* no story ends the run, else the first one enters the loop
RunHunt ==
    /\ script = "journalism_pipeline"
    /\ run.pc = "start"
    /\ \E t \in now..MaxNow :
          LET stories == hunt_stories(EmptyDict)
              call == [arm |-> "1_story_hunter", arg |-> EmptyDict, out |-> stories]
          IN /\ now' = t
             /\ IF stories = <<>>
                THEN /\ run' = [run EXCEPT !.pc = "done", !.trace = <<call>>]
                     /\ ret' = [op |-> "run_journalism_pipeline", val |-> None]
                ELSE /\ run' = [run EXCEPT !.pc = "loop", !.i = 1,
                                           !.result = stories[1], !.trace = <<call>>]
                     /\ UNCHANGED ret
    /\ UNCHANGED <<script, loop, verdicts, auto, video, agent, stdout, sha_parliament, sha_journalism, sha_watsonx,
                   brain, watch>>

\* one turn of the loop over pipeline.arms.items()
RunArm ==
    /\ script = "journalism_pipeline"
    /\ run.pc = "loop"
    /\ run.i <= Len(journalism_arms)
    /\ \E t \in now..MaxNow :
          LET arm_name == journalism_arms[run.i]
              r == arm_function(arm_name, run.result, run.hashes, t)
              call == [arm |-> arm_name, arg |-> run.result, out |-> r.val]
          IN /\ now' = t
             /\ IF arm_name = "1_story_hunter"
                THEN run' = [run EXCEPT !.i = @ + 1]
                ELSE run' = [run EXCEPT !.i = @ + 1, !.result = r.val,
                                        !.hashes = r.hashes,
                                        !.trace = Append(@, call)]
    /\ UNCHANGED <<script, loop, verdicts, auto, video, agent, stdout, ret, sha_parliament, sha_journalism, sha_watsonx,
                   brain, watch>>

\* return result
RunReturn ==
    /\ script = "journalism_pipeline"
    /\ run.pc = "loop"
    /\ run.i > Len(journalism_arms)
    /\ run' = [run EXCEPT !.pc = "done"]
    /\ ret' = [op |-> "run_journalism_pipeline", val |-> run.result]
    /\ UNCHANGED <<script, loop, verdicts, auto, video, agent, now, stdout, sha_parliament, sha_journalism, sha_watsonx,
                   brain, watch>>

----------------------------------------------------------------------------
(* automation.py: main() *)

\* log_action("SYSTEM_START", ...), before the loop
AutomationStart ==
    /\ script = "automation"
    /\ auto.pc = "start"
    /\ LET st == logged([file |-> auto.LOG_FILE, t |-> now], auto.CYCLE,
                        "SYSTEM_START", <<"Automation initialized">>, None)
       IN /\ auto' = [auto EXCEPT !.LOG_FILE = st.file, !.pc = "loop"]
          /\ now' = st.t
          /\ ret' = [op |-> "log_action", val |-> None]
    /\ UNCHANGED <<script, loop, verdicts, stdout, sha_parliament, sha_journalism, sha_watsonx,
                   brain, watch, run, video, agent>>

\* how many steps of a cycle with these outcomes fail
faults_of(cycle, data_ok, voice_ok, git) ==
    (IF data_ok THEN 0 ELSE 1)
    + (IF (cycle + 1) % 3 = 1 /\ ~voice_ok THEN 1 ELSE 0)
    + (IF data_ok /\ git # "pushed" THEN 1 ELSE 0)

\* one turn of the loop of main(): run_cycle()
AutomationRunCycle ==
    /\ script = "automation"
    /\ auto.pc = "loop"
    /\ auto.CYCLE < MaxCycle
    /\ \E data_ok \in BOOLEAN, voice_ok \in BOOLEAN,
          git \in {"pushed", "not pushed", "exception"} :
          LET r == run_cycle([file |-> auto.LOG_FILE, t |-> now], auto.CYCLE,
                             data_ok, voice_ok, git)
              faults == auto.faults + faults_of(auto.CYCLE, data_ok, voice_ok, git)
          IN /\ faults <= MaxFaults
             /\ auto' = [auto EXCEPT !.CYCLE = r.CYCLE, !.LOG_FILE = r.st.file,
                                     !.faults = faults]
             /\ now' = r.st.t
             /\ ret' = [op |-> "run_cycle",
                        val |-> [data_ok |-> r.data_ok, voice_ok |-> r.voice_ok]]
    /\ UNCHANGED <<script, loop, verdicts, stdout, sha_parliament, sha_journalism, sha_watsonx,
                   brain, watch, run, video, agent>>

\* KeyboardInterrupt: log_action("SYSTEM_STOP", ...) and main() returns
AutomationStop ==
    /\ script = "automation"
    /\ auto.pc = "loop"
    /\ LET st == logged([file |-> auto.LOG_FILE, t |-> now], auto.CYCLE,
                        "SYSTEM_STOP", <<"User interrupt">>, None)
       IN /\ auto' = [auto EXCEPT !.LOG_FILE = st.file, !.pc = "stopped"]
          /\ now' = st.t
          /\ ret' = [op |-> "log_action", val |-> None]
    /\ UNCHANGED <<script, loop, verdicts, stdout, sha_parliament, sha_journalism, sha_watsonx,
                   brain, watch, run, video, agent>>

----------------------------------------------------------------------------
(* runway_video_generator.py: one generate_video_from_text call *)

\* RunwayVideoGenerator()
VideoConstruct ==
    /\ script = "runway_video_generator"
    /\ video.pc = "start"
    /\ \E configured \in BOOLEAN : video' = runway_init(configured)
    /\ UNCHANGED <<script, loop, verdicts, now, stdout, ret, sha_parliament, sha_journalism,
                   sha_watsonx, brain, watch, run, auto, agent>>

\* generate_video_from_text(prompt) is called and reaches its loop or returns
VideoGenerate ==
    /\ script = "runway_video_generator"
    /\ video.pc = "idle"
    /\ \E created \in BOOLEAN :
          video' = generate_video_from_text(video, <<"Exterior of UK Houses of Parliament">>,
                                            5, created)
    /\ ret' = [op |-> "generate_video_from_text", val |-> video'.result]
    /\ UNCHANGED <<script, loop, verdicts, now, stdout, sha_parliament, sha_journalism,
                   sha_watsonx, brain, watch, run, auto, agent>>

\* one status poll of the loop
VideoPoll ==
    /\ script = "runway_video_generator"
    /\ video.pc = "polling"
    /\ \E answer \in TaskStatuses \cup {"exception"} :
          video' = poll_task(video, <<"Exterior of UK Houses of Parliament">>, answer)
    /\ ret' = [op |-> "generate_video_from_text", val |-> video'.result]
    /\ UNCHANGED <<script, loop, verdicts, now, stdout, sha_parliament, sha_journalism,
                   sha_watsonx, brain, watch, run, auto, agent>>

----------------------------------------------------------------------------
(* watsonx_orchestrate.py: the methods of a We333Agent, called in any order *)

Contexts == {<<"Track", "current", "bills">>}

AgentActions == {<<"fetch", "bills">>, <<"Force", "vote">>, <<"Publish", "report">>}

Observations == {<<"bills", "fetched">>}

AgentThink ==
    /\ script = "watsonx_orchestrate"
    /\ Len(agent.memory) < MaxMemory
    /\ \E context \in Contexts :
          LET r == think(agent, context) IN
          /\ agent' = r.self
          /\ ret' = [op |-> "think", val |-> r.val]
    /\ UNCHANGED <<script, loop, verdicts, now, stdout, sha_parliament, sha_journalism,
                   sha_watsonx, brain, watch, run, auto, video>>

AgentAct ==
    /\ script = "watsonx_orchestrate"
    /\ Len(agent.memory) < MaxMemory
    /\ \E action \in AgentActions, t \in now..MaxNow :
          LET r == act(agent, action, EmptyDict, t) IN
          /\ agent' = r.self
          /\ now' = t
          /\ ret' = [op |-> "act", action |-> action, val |-> r.val]
    /\ UNCHANGED <<script, loop, verdicts, stdout, sha_parliament, sha_journalism,
                   sha_watsonx, brain, watch, run, auto, video>>

AgentObserve ==
    /\ script = "watsonx_orchestrate"
    /\ Len(agent.memory) < MaxMemory
    /\ \E observation \in Observations :
          LET r == observe(agent, observation) IN
          /\ agent' = r.self
          /\ ret' = [op |-> "observe", val |-> r.val]
    /\ UNCHANGED <<script, loop, verdicts, now, stdout, sha_parliament, sha_journalism,
                   sha_watsonx, brain, watch, run, auto, video>>

----------------------------------------------------------------------------
(* The ethics gates, called directly *)

\* self.ethics.check(action, data) on the agent's OmniplexEthics
AgentEthicsCheck ==
    /\ script = "watsonx_orchestrate"
    /\ \E action \in AgentActions :
          LET r == ethics_check(agent.ethics, action, EmptyDict) IN
          /\ agent' = [agent EXCEPT !.ethics = r.self]
          /\ verdicts' = Put(verdicts, <<action, EmptyDict>>, r.val)
          /\ ret' = [op |-> "check", val |-> [returned |-> r.val]]
    /\ UNCHANGED <<script, loop, now, stdout, sha_parliament, sha_journalism,
                   sha_watsonx, brain, watch, run, auto, video>>

ConstitutionActions == {<<"editorial", "decision">>}

\* self.ethics.check(action, data) on the brain's OmniplexConstitution
BrainEthicsCheck ==
    /\ script = "octopus_parliament_only"
    /\ \E action \in ConstitutionActions :
          LET verdict == constitution_check(action, "bills_monitor") IN
          ret' = [op |-> "check", val |-> [returned |-> verdict]]
    /\ UNCHANGED <<script, loop, verdicts, now, stdout, sha_parliament, sha_journalism,
                   sha_watsonx, brain, watch, run, auto, video, agent>>

----------------------------------------------------------------------------
(* journalism_pipeline.py: prepare_publication, called directly *)

\* the analyses prepare_publication is called with: a headline, and the
\* verified facts and the sources that the arms before it may have left
Analyses ==
    LET base == [headline |-> "New Climate Bill Debate"]
        fact == [claim |-> "Sample fact", source |-> "test"]
        source == [id |-> "bbc-1", content |-> "article"]
        facts == {base} \cup {Put(base, "verified_facts", f) : f \in {<<>>, <<fact>>}}
    IN facts \cup {Put(a, "sources", <<source>>) : a \in facts}
             \cup {Put(a, "sources", <<>>) : a \in facts}

PreparePublication ==
    /\ script = "journalism_pipeline.prepare_publication"
    /\ \E analysis \in Analyses, t \in now..MaxNow :
          /\ now' = t
          /\ ret' = [op |-> "prepare_publication", arg |-> analysis,
                     val |-> prepare_publication(analysis, t)]
    /\ UNCHANGED <<script, loop, stdout, sha_parliament, sha_journalism, sha_watsonx,
                   brain, watch, run, auto, video, agent, verdicts>>

----------------------------------------------------------------------------
(* The specification *)

Next ==
    \/ Verify
    \/ BrainDriftCheck
    \/ BrainGatherIntelligence
    \/ BrainProcessArm
    \/ BrainFreeze
    \/ BrainRunIteration
    \/ BrainRunReturn
    \/ WatchDriftCheck
    \/ WatchCollaborativeGather
    \/ WatchFreeze
    \/ RunHunt
    \/ RunArm
    \/ RunReturn
    \/ AutomationStart
    \/ AutomationRunCycle
    \/ AutomationStop
    \/ VideoConstruct
    \/ VideoGenerate
    \/ VideoPoll
    \/ AgentThink
    \/ AgentAct
    \/ AgentObserve
    \/ AgentEthicsCheck
    \/ BrainEthicsCheck
    \/ PreparePublication

Spec == Init /\ [][Next]_vars

----------------------------------------------------------------------------
(* Claims *)

\* C1: once frozen is true, no operation of We333ParliamentBrain (drift check,
\* gather, process_arm, freeze) or of We333WestminsterWatch sets it back to
\* false.
C1_FreezeIsPermanent ==
    [][(brain.frozen => brain'.frozen) /\ (watch.frozen => watch'.frozen)]_vars

\* a drift check that was due has passed on a brain that was frozen before it
C1_Witness ==
    /\ brain.frozen
    /\ ret.op = "drift_check"
    /\ now > 0
    /\ brain.last_drift = now

\* C2: on a frozen brain gather_intelligence, and on a frozen watch
\* collaborative_gather, returns only its status result and leaves every arm
\* (status, errors, last_data) and the SHA table as they were.
C2_FrozenGatherFailsFast ==
    [][/\ (brain.frozen /\ ret'.op = "gather_intelligence")
            => /\ ret'.val = [status |-> "frozen"]
               /\ brain'.arms = brain.arms
               /\ brain'.sha = brain.sha
       /\ (watch.frozen /\ ret'.op = "collaborative_gather")
            => /\ ret'.val = [status |-> "WE are reviewing together"]
               /\ watch'.arms = watch.arms]_vars

\* gather_intelligence has returned its status on a frozen brain that holds
\* hashes and errors
C2_Witness ==
    /\ brain.frozen
    /\ ret.op = "gather_intelligence"
    /\ ret.val = [status |-> "frozen"]
    /\ brain.sha # EmptyDict
    /\ \E a \in ParliamentArmNames : brain.arms[a].errors > 0

\* C3 (as claimed): on a frozen brain a direct process_arm(arm) returns no
\* data, records no new hash and changes no errors counter.
C3_FrozenProcessArmFails ==
    [][(brain.frozen /\ ret'.op = "process_arm")
          => /\ ret'.val = EmptyDict
             /\ brain'.sha = brain.sha
             /\ brain'.arms = brain.arms]_vars

\* C4 (as claimed): frozen becomes true only in a drift check, in an explicit
\* freeze call, or in a call that leaves an arm's errors counter at the
\* threshold; one failed verification alone never sets it.
C4_NoSingleFailureFreezes ==
    [][/\ (~brain.frozen /\ brain'.frozen)
            => \/ ret'.op \in {"drift_check", "freeze"}
               \/ \E a \in ParliamentArmNames : brain'.arms[a].errors >= 3
       /\ (~watch.frozen /\ watch'.frozen)
            => \/ ret'.op \in {"we333_drift_check", "we_freeze"}
               \/ \E a \in OurArmNames : watch'.arms[a].errors >= 3]_vars

\* C5: an arm of We333ParliamentBrain whose errors counter stands at 2 or
\* less has caused no freeze ("Arm <arm> failed 3 times" was never printed);
\* once its counter is 3 the freeze for that arm has been called, in the call
\* that counted the third failure, so the brain is frozen.
C5_EscalationAtThree ==
    \A a \in ParliamentArmNames :
        /\ brain.arms[a].errors <= 2 => <<"Arm", a, "failed 3 times">> \notin stdout
        /\ brain.arms[a].errors >= 3
              => brain.frozen /\ <<"Arm", a, "failed 3 times">> \in stdout

\* one arm has failed 3 times and frozen the brain while another stands at
\* exactly 2 failures, which froze nothing
C5_Witness ==
    \E a, b \in ParliamentArmNames :
        /\ brain.arms[a].errors = 3
        /\ brain.arms[b].errors = 2
        /\ <<"Arm", a, "failed 3 times">> \in stdout
        /\ <<"Arm", b, "failed 3 times">> \notin stdout

\* C6 (as claimed): once the SHA check of an arm has failed on a mismatch (the
\* arm's errors counter is above 0: no other check of triple_verify can fail),
\* the arm is failed for good and no later gather pass processes it: the pass
\* neither returns data for it nor counts another failure of it.
C6_MismatchIsFatal ==
    [][\A a \in ParliamentArmNames :
          (ret'.op = "gather_intelligence" /\ brain.arms[a].errors > 0)
             => /\ brain'.arms[a].errors = brain.arms[a].errors
                /\ a \notin DOMAIN ret'.val]_vars

\* C7: in each of the three verifiers, verify(key, data) for a key whose
\* stored hash differs from hash(data) returns False and leaves the whole
\* hash table unchanged, after any earlier calls.
C7_MismatchChangesNothing ==
    [][(ret'.op = "verify" /\ ret'.n = ret.n + 1)
          => LET key == ret'.key
                 current == compute_hash(ret'.data)
             IN /\ (key \in DOMAIN sha_parliament /\ sha_parliament[key] # current)
                      => ~ret'.val.parliament /\ sha_parliament' = sha_parliament
                /\ (key \in DOMAIN sha_journalism /\ sha_journalism[key] # current)
                      => ~ret'.val.journalism /\ sha_journalism' = sha_journalism
                /\ (key \in DOMAIN sha_watsonx /\ sha_watsonx[key] # current)
                      => ~ret'.val.watsonx /\ sha_watsonx' = sha_watsonx]_vars

\* a verify call has hit a mismatch in all three verifiers, which still hold
\* the hash recorded first
C7_Witness ==
    /\ ret.op = "verify"
    /\ ~ret.val.parliament /\ ~ret.val.journalism /\ ~ret.val.watsonx
    /\ sha_parliament[ret.key] # compute_hash(ret.data)
    /\ sha_journalism[ret.key] # compute_hash(ret.data)
    /\ sha_watsonx[ret.key] # compute_hash(ret.data)

\* C8: verify(key, data) on a key that is unrecorded or recorded with
\* hash(data) returns True, and the same call made again right after it
\* returns True too and leaves the hash table as the first call left it.
C8_IdenticalRerecordIsNoOp ==
    [][(ret'.op = "verify" /\ ret'.n = ret.n + 1)
          => LET key == ret'.key
                 current == compute_hash(ret'.data)
                 fresh(hashes) == key \notin DOMAIN hashes \/ hashes[key] = current
             IN /\ fresh(sha_parliament) => ret'.val.parliament
                /\ fresh(sha_journalism) => ret'.val.journalism
                /\ fresh(sha_watsonx) => ret'.val.watsonx
                /\ (ret'.again /\ ret.val.parliament)
                      => ret'.val.parliament /\ sha_parliament' = sha_parliament
                /\ (ret'.again /\ ret.val.journalism)
                      => ret'.val.journalism /\ sha_journalism' = sha_journalism
                /\ (ret'.again /\ ret.val.watsonx)
                      => ret'.val.watsonx /\ sha_watsonx' = sha_watsonx]_vars

\* the same verify call has been made twice in a row and returned True
C8_Witness ==
    /\ ret.op = "verify"
    /\ ret.again
    /\ ret.val.parliament /\ ret.val.journalism /\ ret.val.watsonx

\* C9 (as claimed): the hash table is the same before and after every
\* verify(key, data) call, the first call for a key included.
C9_VerifyNeverMutates ==
    [][ret'.op = "verify"
          => /\ sha_parliament' = sha_parliament
             /\ sha_journalism' = sha_journalism
             /\ sha_watsonx' = sha_watsonx]_vars

\* C9 (amended): verify(key, data) leaves the hash table as it was for every
\* key that is already recorded; the first call for a key changes the table
\* only by storing hash(data) under that key.
C9_VerifyMutatesOnlyOnFirstCall ==
    [][(ret'.op = "verify" /\ ret'.n = ret.n + 1)
          => LET stored(hashes) == IF ret'.key \in DOMAIN hashes THEN hashes
                                   ELSE Put(hashes, ret'.key, compute_hash(ret'.data))
             IN /\ sha_parliament' = stored(sha_parliament)
                /\ sha_journalism' = stored(sha_journalism)
                /\ sha_watsonx' = stored(sha_watsonx)]_vars

\* more verify calls were made than keys are recorded: a call was made on a
\* key that was already recorded, and each earlier first call left its hash
C9_Witness ==
    /\ ret.op = "verify"
    /\ ret.n > Cardinality(DOMAIN sha_watsonx)
    /\ DOMAIN sha_watsonx # {}
    /\ \A key \in DOMAIN sha_watsonx : \E data \in Data : sha_watsonx[key] = compute(data)

\* C10: a run of run_journalism_pipeline calls 1_story_hunter once and then
\* the arms 2_story_analyzer .. 8_publisher in this order, each once: the
\* first on the first story hunted, each later one on what the one before
\* returned; a finished run has called all of them and returns what
\* 8_publisher returned.
C10_StageOrder ==
    LET order == <<"1_story_hunter", "2_story_analyzer", "3_fact_checker",
                   "4_source_verifier", "5_api_aggregator", "6_context_builder",
                   "7_bias_detector", "8_publisher">>
        trace == run.trace
    IN /\ Len(trace) <= Len(order)
       /\ \A k \in DOMAIN trace : trace[k].arm = order[k]
       /\ Len(trace) >= 2 => trace[2].arg = trace[1].out[1]
       /\ \A k \in 3..Len(trace) : trace[k].arg = trace[k - 1].out
       /\ run.pc = "done"
             => /\ Len(trace) = Len(order)
                /\ ret.op = "run_journalism_pipeline"
                /\ ret.val = trace[Len(trace)].out

\* a run has finished after all eight arms
C10_Witness ==
    /\ run.pc = "done"
    /\ Len(run.trace) = 8
    /\ run.trace[8].arm = "8_publisher"

\* C11 (as claimed): a run of run_journalism_pipeline that has taken its story
\* through all eight arms, the ethics check and the three fact checks passing
\* (they always do), returns a publication with status READY_TO_PUBLISH.
C11_AllowedStoryIsPublished ==
    (/\ run.pc = "done"
     /\ Len(run.trace) = Len(journalism_arms)
     /\ run.trace[2].out # EmptyDict
     /\ run.trace[3].out.verified_facts = extract_facts(run.trace[3].arg))
        => ret.val.status = "READY_TO_PUBLISH"

\* C12 (as claimed): a frozen brain, and a frozen watch, holds the reason of
\* its freeze: some attribute other than the ones the constructor sets (none
\* of which freeze or we_freeze assigns a reason to) holds a reason that a
\* freeze call was given.
C12_FreezeReasonIsStored ==
    /\ brain.frozen
          => \E f \in DOMAIN brain \ DOMAIN parliament_brain_init(0) : brain[f] \in stdout
    /\ watch.frozen
          => \E f \in DOMAIN watch \ DOMAIN westminster_watch_init(0) : watch[f] \in stdout

\* C13: no call decreases an arm's errors counter, in We333ParliamentBrain and
\* in We333WestminsterWatch, and a freeze or we_freeze call leaves every
\* counter as it was.
C13_ErrorCountersPersist ==
    [][/\ \A a \in ParliamentArmNames : brain'.arms[a].errors >= brain.arms[a].errors
       /\ \A a \in OurArmNames : watch'.arms[a].errors >= watch.arms[a].errors
       /\ ret'.op = "freeze"
            => \A a \in ParliamentArmNames : brain'.arms[a].errors = brain.arms[a].errors
       /\ ret'.op = "we_freeze"
            => \A a \in OurArmNames : watch'.arms[a].errors = watch.arms[a].errors]_vars

\* freeze was called on a brain that has counted failures
C13_Witness ==
    /\ ret.op = "freeze"
    /\ brain.frozen
    /\ \E a \in ParliamentArmNames : brain.arms[a].errors = 2

\* s is t with entries left out: every entry of s is in t, in the same order
RECURSIVE IsSubsequence(_, _)
IsSubsequence(s, t) ==
    IF s = <<>> THEN TRUE
    ELSE IF t = <<>> THEN FALSE
    ELSE IF Head(s) = Head(t) THEN IsSubsequence(Tail(s), Tail(t))
    ELSE IsSubsequence(s, Tail(t))

\* C14 (as claimed): the entries that log_action has written to LOG_FILE are
\* all still in it after any later log_action calls, in their original order.
C14_AuditLogAppendOnly ==
    [][IsSubsequence(auto.LOG_FILE, auto'.LOG_FILE)]_vars

\* C15: in every reachable state the arms of We333ParliamentBrain are the 8
\* arms of its constructor and the arms of We333WestminsterWatch are the 8
\* arms of initialize_our_arms: no call adds, removes or renames one, and the
\* drift predicate len(arms) == 8 holds.
C15_ArmsAreImmutable ==
    /\ DOMAIN brain.arms = DOMAIN parliament_brain_init(0).arms
    /\ Cardinality(DOMAIN brain.arms) = 8
    /\ DOMAIN watch.arms = DOMAIN initialize_our_arms
    /\ Cardinality(DOMAIN watch.arms) = 8

\* a due drift check has evaluated its predicates on a brain that has counted
\* failures, and passed
C15_Witness ==
    /\ ret.op = "drift_check"
    /\ ret.val = [returned |-> TRUE]
    /\ brain.last_drift > 0
    /\ \E a \in ParliamentArmNames : brain.arms[a].errors > 0

\* C16: a direct call of OmniplexEthics.check or OmniplexConstitution.check
\* leaves the gate, the agent (its memory included) and the brain as they
\* were; OmniplexEthics.check returns the verdict that the latest call with
\* the same (action, data) returned, whatever was called in between, and
\* OmniplexConstitution.check returns True on every call.
C16_EthicsCheckIsPure ==
    [][ret'.op = "check"
          => /\ agent' = agent
             /\ brain' = brain
             /\ \A k \in DOMAIN verdicts : verdicts'[k] = verdicts[k]
             /\ script = "octopus_parliament_only" => ret'.val = [returned |-> TRUE]]_vars

\* a blocked action was checked, the agent acted in between, and the same
\* check was made again
C16_Witness ==
    /\ ret.op = "check"
    /\ ret.val = [returned |-> FALSE]
    /\ Len(agent.memory) = MaxMemory
    /\ \E k \in DOMAIN verdicts : verdicts[k]

\* C17 (as claimed): every generate_video_from_text call returns a result: a
\* call that has entered its polling loop leaves it, whatever the remote task
\* answers.
C17_VideoGenerationReturns ==
    (video.pc = "polling") ~> (video.pc = "returned")

\* The scheduling of runway_video_generator.py: the script is one thread that
\* takes its next step whenever it has one, so once the loop is entered the
\* next poll is always made; what the remote task answers stays free.
LiveSpec ==
    /\ Init
    /\ [][Next]_vars
    /\ WF_vars(VideoConstruct)
    /\ WF_vars(VideoGenerate)
    /\ WF_vars(VideoPoll)

\* C20: the memory of a We333Agent only grows at its end: an act that the
\* ethics check rejects returns status 'blocked' and leaves the memory as it
\* was; an allowed act appends exactly one 'action' entry holding its result;
\* think appends exactly one 'thought' entry and observe exactly one
\* 'observation' entry; no step removes or rewrites an earlier entry.
C20_AgentMemoryAppendOnly ==
    [][LET old == agent.memory
           new == agent'.memory
           blocked == [status |-> "blocked", reason |-> "Ethics violation"]
       IN /\ Len(new) >= Len(old)
          /\ SubSeq(new, 1, Len(old)) = old
          /\ ret'.op = "act"
                => (ret'.val = blocked
                      <=> ~ethics_check(agent.ethics, ret'.action, EmptyDict).val)
          /\ (ret'.op = "act" /\ ret'.val = blocked) => new = old
          /\ (ret'.op = "act" /\ ret'.val # blocked)
                => new = Append(old, [type |-> "action", content |-> ret'.val])
          /\ ret'.op = "think"
                => /\ Len(new) = Len(old) + 1
                   /\ new[Len(new)].type = "thought"
          /\ ret'.op = "observe"
                => /\ Len(new) = Len(old) + 1
                   /\ new[Len(new)].type = "observation"]_vars


\* a blocked act on an agent that remembers a thought and an action
C20_Witness ==
    /\ ret.op = "act"
    /\ ret.val = [status |-> "blocked", reason |-> "Ethics violation"]
    /\ Len(agent.memory) = 2
    /\ agent.memory[1].type = "thought"
    /\ agent.memory[2].type = "action"

\* C19: the publication that prepare_publication returns has the status
\* READY_TO_PUBLISH exactly when it has at least one verified fact and
\* sources_cited > 0, and the status NEEDS_HUMAN_REVIEW in every other case.
C19_PublicationStatus ==
    ret.op \in {"prepare_publication", "run_journalism_pipeline"}
        => LET publication == ret.val
               approved == /\ Len(publication.verified_facts) >= 1
                           /\ publication.sources_cited > 0
           IN /\ publication.status \in {"READY_TO_PUBLISH", "NEEDS_HUMAN_REVIEW"}
              /\ publication.status = "READY_TO_PUBLISH" <=> approved
              /\ ret.op = "prepare_publication"
                    => /\ publication.sources_cited = Len(Get(ret.arg, "sources", <<>>))
                       /\ publication.verified_facts = Get(ret.arg, "verified_facts", <<>>)

\* prepare_publication has returned a publication that is ready to publish
C19_Witness ==
    /\ ret.op = "prepare_publication"
    /\ ret.val.status = "READY_TO_PUBLISH"
    /\ ret.val.sources_cited = 1

\* the voice attempts (VOICE_GEN entries) that the log holds for cycle c
VoiceAttempts(log, c) ==
    Cardinality({i \in DOMAIN log : log[i].action = "VOICE_GEN" /\ log[i].cycle = c})

\* C21: a run_cycle call increases CYCLE by exactly 1 and attempts the voice
\* briefing exactly when the new CYCLE mod 3 is 1, whether or not its data
\* fetch succeeded; any three consecutive cycles that the log still holds in
\* full contain exactly one voice attempt.
C21_VoiceEveryThirdCycle ==
    [][auto'.CYCLE # auto.CYCLE
          => LET log == auto'.LOG_FILE
                 first == IF Len(log) < log_keep THEN 1 ELSE log[1].cycle + 1
             IN /\ auto'.CYCLE = auto.CYCLE + 1
                /\ VoiceAttempts(log, auto'.CYCLE)
                      = (IF auto'.CYCLE % 3 = 1 THEN 1 ELSE 0)
                /\ \A c \in first..(auto'.CYCLE - 2) :
                      VoiceAttempts(log, c) + VoiceAttempts(log, c + 1)
                         + VoiceAttempts(log, c + 2) = 1]_vars

\* cycle 4 has attempted the voice briefing although its data fetch failed
C21_Witness ==
    /\ ret.op = "run_cycle"
    /\ auto.CYCLE = 4
    /\ ~ret.val.data_ok
    /\ VoiceAttempts(auto.LOG_FILE, 4) = 1
    /\ VoiceAttempts(auto.LOG_FILE, 2) + VoiceAttempts(auto.LOG_FILE, 3) = 0


\* C22: We333ParliamentBrain.run() terminates. Every step of run() either
\* makes one more turn of the loop or returns, a turn is made only while
\* frozen is false and fewer than 100 turns were made, so that the count never
\* passes 100; run() returns at the loop test when frozen is true, and it
\* leaves the loop from inside a turn when drift_check returned False or
\* gather_intelligence reported the status "frozen".
C22_RunTerminates ==
    [][script = "octopus_parliament_only.run" /\ loop' # loop
          => /\ loop.pc = "run"
             /\ loop'.iteration <= 100
             /\ \/ /\ ret'.op = "run_iteration"
                   /\ loop'.iteration = loop.iteration + 1
                   /\ ~brain.frozen
                   /\ loop.iteration < 100
                \/ /\ ret'.op = "run"
                   /\ loop'.iteration = loop.iteration
                   /\ loop'.pc = "returned"
             /\ brain.frozen => loop'.pc = "returned" /\ loop'.iteration = loop.iteration
             /\ ret'.op = "run_iteration" /\ loop'.pc = "run"
                   => ret'.arm # "drift" /\ ret'.val # [status |-> "frozen"]]_vars

\* run() has stopped long before the 100th turn, at the loop test that
\* followed the freeze
C22_Witness ==
    /\ script = "octopus_parliament_only.run"
    /\ loop.pc = "returned" /\ ret.op = "run"
    /\ brain.frozen
    /\ loop.iteration < 100


\* the arm whose third failure froze the brain in the pass of this step
FreezingArms ==
    {k \in DOMAIN parliament_arms :
        /\ brain.arms[parliament_arms[k]].errors < freeze_threshold
        /\ brain'.arms[parliament_arms[k]].errors >= freeze_threshold}

\* the hashes a table holds under the keys of one arm
HashesOf(hashes, arm_name) ==
    {<<key, hashes[key]>> : key \in {x \in DOMAIN hashes : x[1] = arm_name}}

\* C23: when a pass of gather_intelligence freezes the brain because an arm's
\* errors reached 3, no arm later in the pass order is fetched or verified in
\* that pass: it is absent from the returned dictionary, and its errors
\* counter and its hashes are what they were before the pass.
C23_FreezeStopsThePass ==
    [][(ret'.op \in {"gather_intelligence", "run_iteration"}
           /\ ~brain.frozen /\ brain'.frozen)
          => /\ Cardinality(FreezingArms) = 1
             /\ \A k \in FreezingArms : \A j \in DOMAIN parliament_arms :
                   j > k => LET later == parliament_arms[j] IN
                            /\ later \notin DOMAIN ret'.val
                            /\ brain'.arms[later].errors = brain.arms[later].errors
                            /\ HashesOf(brain'.sha, later) = HashesOf(brain.sha, later)]_vars

\* a pass has frozen the brain at its second arm, with six arms still to come
C23_Witness ==
    /\ ret.op = "gather_intelligence"
    /\ brain.frozen
    /\ brain.arms[parliament_arms[2]].errors = freeze_threshold
    /\ brain.arms[parliament_arms[1]].errors < freeze_threshold
    /\ parliament_arms[1] \in DOMAIN ret.val
    /\ \A j \in 3..Len(parliament_arms) : parliament_arms[j] \notin DOMAIN ret.val


\* the statuses the arms of a brain or of a watch have
StatusesOf(self) == {self.arms[a].status : a \in DOMAIN self.arms}

\* C24: in every reachable state of We333ParliamentBrain and of
\* We333WestminsterWatch the frozen flag and the arms' statuses agree: frozen
\* is true exactly when every arm's status is "frozen", false exactly when
\* every arm's status is "ready", and no state mixes the two statuses.
C24_FlagAndStatusesAgree ==
    \A self \in {brain, watch} :
        /\ self.frozen <=> StatusesOf(self) = {"frozen"}
        /\ ~self.frozen <=> StatusesOf(self) = {"ready"}
        /\ Cardinality(StatusesOf(self)) = 1

\* a watch frozen in the middle of a pass, by the refused verification of its
\* second arm
C24_Witness ==
    /\ ret.op = "collaborative_gather"
    /\ watch.frozen
    /\ watch.arms[our_arms[1]].we333_verified
    /\ watch.arms[our_arms[2]].errors = 1
    /\ StatusesOf(watch) = {"frozen"}


\* the sum of the errors counters of the watch's arms from the i-th arm on
RECURSIVE SumOfErrors(_, _)
SumOfErrors(self, i) ==
    IF i > Len(our_arms) THEN 0
    ELSE self.arms[our_arms[i]].errors + SumOfErrors(self, i + 1)

\* C25: in We333WestminsterWatch the escalation on the error count is
\* unreachable: whatever the verifications answer and however many
\* collaborative_gather calls are made, the errors counters of all arms sum to
\* at most 1, no call returns the status "WE are fixing together", and no
\* freeze is announced with "needs attention".
C25_EscalationUnreachable ==
    /\ SumOfErrors(watch, 1) <= 1
    /\ \A a \in OurArmNames : <<"OUR", a, "needs attention">> \notin stdout
    /\ script = "octopus_we333" /\ ret.op = "collaborative_gather"
          => ret.val # [status |-> "WE are fixing together"]

\* a refused verification has frozen the watch with one error counted, and a
\* later collaborative_gather call has found the watch frozen
C25_Witness ==
    /\ script = "octopus_we333" /\ ret.op = "collaborative_gather"
    /\ ret.val = [status |-> "WE are reviewing together"]
    /\ SumOfErrors(watch, 1) = 1
    /\ <<"WE333 VERIFICATION NEEDS CONSENSUS">> \in stdout


\* the hash of what arm_name fetches at tick t
FetchedHash(arm_name, t) ==
    compute_hash(json_dumps_sorted(fetch_parliament_data(arm_name, t)))

\* the keys of the eight arms in the clock hour of tick t
KeysOfHour(t) == {<<a, hour(t)>> : a \in ParliamentArmNames}

\* the pass of this step stays in the clock hour of every earlier fetch, and
\* what each arm fetches in it differs from what its first fetch recorded
SameHourFreshData ==
    /\ DOMAIN brain.sha = KeysOfHour(now')
    /\ \A a \in ParliamentArmNames : brain.sha[<<a, hour(now')>>] # FetchedHash(a, now')

\* every arm of the brain has failed n times
AllErrors(self, n) == \A a \in ParliamentArmNames : self.arms[a].errors = n

\* C26: run() freezes itself in its 4th iteration when all fetches fall in one
\* clock hour and every fetch differs from the arm's first. Iteration 1
\* records a hash for each of the 8 arms and counts no error; iterations 2
\* and 3 fail the SHA check of all 8 arms, leaving every arm with 1 and then
\* 2 errors; in iteration 4 bills_monitor reaches 3 errors and freezes the
\* brain, and every other arm keeps 2 errors.
C26_RunFreezesInFourthIteration ==
    [][script = "octopus_parliament_only.run" /\ ret'.op = "run_iteration"
          => /\ loop.iteration = 0
                   => /\ loop'.iteration = 1
                      /\ DOMAIN brain'.sha = KeysOfHour(now')
                      /\ \A a \in ParliamentArmNames :
                            brain'.sha[<<a, hour(now')>>] = FetchedHash(a, now')
                      /\ AllErrors(brain', 0)
                      /\ ~brain'.frozen
             /\ (loop.iteration \in {1, 2} /\ SameHourFreshData
                                          /\ AllErrors(brain, loop.iteration - 1))
                   => /\ AllErrors(brain', loop.iteration)
                      /\ brain'.sha = brain.sha
                      /\ ret'.val = EmptyDict
                      /\ ~brain'.frozen
             /\ (loop.iteration = 3 /\ SameHourFreshData /\ AllErrors(brain, 2))
                   => /\ loop'.iteration = 4
                      /\ brain'.frozen
                      /\ brain'.arms["bills_monitor"].errors = 3
                      /\ \A a \in ParliamentArmNames \ {"bills_monitor"} :
                            brain'.arms[a].errors = 2
                      /\ brain'.sha = brain.sha
                      /\ <<"Arm", "bills_monitor", "failed 3 times">> \in stdout']_vars

\* run() has returned after its 4th iteration: the brain is frozen,
\* bills_monitor has 3 errors, the seven other arms have 2, and the table
\* holds the eight hashes of one clock hour
C26_Witness ==
    /\ script = "octopus_parliament_only.run"
    /\ loop = [pc |-> "returned", iteration |-> 4]
    /\ brain.frozen
    /\ brain.arms["bills_monitor"].errors = 3
    /\ \A a \in ParliamentArmNames \ {"bills_monitor"} : brain.arms[a].errors = 2
    /\ DOMAIN brain.sha = KeysOfHour(now)


\* C27: the copies of SHA256Verifier are equivalent. Fed the same sequence of
\* verify(key, data) calls, the verifier of octopus_parliament_only.py and
\* the verifier of journalism_pipeline.py and watsonx_orchestrate.py return
\* the same boolean at every call and hold the same hash table after every
\* call.
C27_VerifiersAreEquivalent ==
    /\ sha_parliament = sha_journalism
    /\ sha_parliament = sha_watsonx
    /\ ret.op = "verify"
          => /\ ret.val.parliament = ret.val.journalism
             /\ ret.val.parliament = ret.val.watsonx

\* the three copies have recorded two keys, and a later call has brought
\* other data for a recorded key: all three have returned False
C27_Witness ==
    /\ ret.op = "verify" /\ ret.n >= 3
    /\ Cardinality(DOMAIN sha_parliament) >= 2
    /\ sha_parliament[ret.key] # compute_hash(ret.data)
    /\ ret.val = [parliament |-> FALSE, journalism |-> FALSE, watsonx |-> FALSE]

============================================================================
